---- MODULE Spec2Model ----
(***************************************************************************)
(* Help-request lifecycle of the salon agent: the SQLite store             *)
(* (help_request_db.py), the timeout sweep (timeout_handler.py) and the    *)
(* manual status update used by the supervisor dashboard.                  *)
(*                                                                         *)
(* Time is counted in seconds.  clock is the UTC wall clock (what SQLite's *)
(* datetime('now') and datetime.utcnow() return); the local wall clock     *)
(* (datetime.now()) is clock + tz.                                         *)
(*                                                                         *)
(* Every action is one store transaction (or one call that performs no     *)
(* store access).  The store is a file shared by every process that        *)
(* imports help_request_db, so transactions of different callers           *)
(* interleave freely; escalate_request runs its SELECT and its UPDATE as   *)
(* two transactions (sqlite3 opens a transaction only before the UPDATE).  *)
(***************************************************************************)
EXTENDS Integers, Sequences, FiniteSets, TLC

\* ---------------------------------------------------------------- bounds
MaxRequests == 1
MaxUpdates == 2
MaxClock == 1860
TickStep == 1860
MaxCount == 4
MaxMinute == 59
MaxTeam == 3
MaxRows == 2
MaxStatRows == 3
MaxInits == 2

\* ------------------------------------------------------------- constants
None == "None"

PENDING == "pending"
IN_PROGRESS == "in_progress"
TIMEOUT == "timeout"
RESOLVED == "resolved"
UNRESOLVED == "unresolved"

HelpRequestStatus == {PENDING, IN_PROGRESS, TIMEOUT, RESOLVED, UNRESOLVED}

HelpRequestPriority == {"low", "medium", "high", "urgent"}

Sweepers == {"s1", "s2"}

TzOffsets == {-3600, 0, 3600}

Ids == 1..MaxRequests

\* inputs of the manual update
AssignedToInputs == {None, "Jennifer Smith"}
ResolutionInputs == {None, "answered"}

timeout_map ==
    [p \in HelpRequestPriority |->
        CASE p = "urgent" -> 5
          [] p = "high" -> 10
          [] p = "medium" -> 15
          [] p = "low" -> 30]

_calculate_timeout_minutes(priority) ==
    IF priority \in DOMAIN timeout_map THEN timeout_map[priority] ELSE 15

escalation_levels ==
    [p \in HelpRequestPriority |->
        CASE p = "urgent" -> 3
          [] p = "high" -> 3
          [] p = "medium" -> 2
          [] p = "low" -> 2]

_load_supervisors == <<"Maria Rodriguez", "Jennifer Smith", "David Chen">>

\* the names a supervisor record can carry
SupervisorNames == {_load_supervisors[k] : k \in DOMAIN _load_supervisors}

\* the teams get_all_supervisors can return: the values of the dictionary in
\* insertion order; two entries may carry the same name
Teams == UNION {[1..n -> SupervisorNames] : n \in 0..MaxTeam}

\* inputs of the resolver
ResolverAssignees == SupervisorNames \cup {None}
ResolverLevels == 1..MaxTeam

\* the local times at which a request is created: every minute of the hour,
\* on the minute and half a minute later
CreationSeconds == {0, 30}
CreationTimes ==
    {60 * m + sec : m \in 0..MaxMinute, sec \in CreationSeconds}

\* the columns of help_requests the model keeps: those of the first
\* version of the table, and those _migrate_schema adds
BaseColumns ==
    {"status", "priority", "created_at", "updated_at", "assigned_to",
     "resolution"}
AddedColumns == <<"timeout_at", "escalation_level", "escalation_history">>
TableColumns == BaseColumns \cup {AddedColumns[k] : k \in DOMAIN AddedColumns}

\* ----------------------------------------------------------------- state
VARIABLES
    rows,             \* the help_requests table; the row id is the index
    clock,            \* UTC wall clock, seconds
    tz,               \* local time = UTC + tz
    supervisors,      \* SupervisorNotifier.supervisors, in insertion order
    pc,               \* per sweeper: position inside process_timeouts
    timed_out_requests, \* per sweeper: requests of the batch still to handle
    current_history,  \* per sweeper: history read by escalate_request
    actions,          \* per sweeper: the list process_timeouts returns
    n_updates,        \* number of manual updates so far
    expiry_sweeps,    \* per id: sweeps started past the request's deadline
    manual_resolved,  \* per id: the last manual update resolved the request
                      \* while it was PENDING at level 0
    swept_late,       \* per id: a sweep has started while the request was
                      \* PENDING and its window had elapsed
    created,          \* outcome of the last create_help_request call
    update_returned,  \* what the last update_request_status call returned
    resolved,         \* the last call of the resolver and what it returned
    notify_calls,     \* the calls of notify_supervisor: the request, the
                      \* operation that made the call, what it returned
    service_returned, \* what the last HelpRequestService.create_help_request
                      \* call returned
    swept,            \* per sweeper: the ids of the batch its sweep started on
    failed,           \* per sweeper: the ids of that batch the sweep could
                      \* neither escalate nor mark UNRESOLVED
    queried,          \* the last read-only query and what it returned
    columns,          \* the columns of the help_requests table
    routed,           \* per request created through the service: the
                      \* supervisor its creation notified, or None
    reading,          \* the get_statistics call under way: its position
                      \* and the results of the statements it has run
    init_runs         \* per run of _init_database on the store: the columns
                      \* the run found

vars == <<rows, clock, tz, supervisors, pc, timed_out_requests,
          current_history, actions, n_updates, expiry_sweeps,
          manual_resolved, swept_late, created, update_returned, resolved,
          notify_calls, service_returned, swept, failed, queried,
          columns, routed, reading, init_runs>>

sweepVars == <<pc, timed_out_requests, current_history, actions>>
ghostVars == <<expiry_sweeps, manual_resolved, swept_late>>
callVars == <<created, update_returned, resolved>>
obsVars == <<notify_calls, service_returned, swept, failed, queried>>
extVars == <<columns, routed, reading, init_runs>>

Min(a, b) == IF a < b THEN a ELSE b

LocalNow == clock + tz
UtcNow == clock

Stored == 1..Len(rows)

\* the instant at which the window of a request's priority has elapsed,
\* on the clock that stamped created_at
WindowEnd(row) == row.created_at + 60 * _calculate_timeout_minutes(row.priority)

\* ------------------------------------------------------ store operations

\* now.minute
MinuteOf(now) == (now \div 60) % 60

\* datetime.replace(minute = minute + timeout_minutes) raises ValueError
\* when the minute leaves 0..59
TimeoutAtRaises(now, priority) ==
    MinuteOf(now) + _calculate_timeout_minutes(priority) > 59

\* now.replace(second=0, microsecond=0), then the minute moved forward
TimeoutAt(now, priority) ==
    (now - (now % 60)) + 60 * _calculate_timeout_minutes(priority)

NewRow(now, priority) ==
    [status |-> PENDING,
     priority |-> priority,
     created_at |-> now,
     updated_at |-> now,
     assigned_to |-> None,
     resolution |-> None,
     timeout_at |-> TimeoutAt(now, priority),
     escalation_level |-> 0,
     escalation_history |-> <<>>]

\* the HelpRequest object built from a row: the dataclass has no
\* timeout_at, escalation_level or escalation_history attribute
_row_to_help_request(id, row) ==
    [id |-> id,
     status |-> row.status,
     priority |-> row.priority,
     created_at |-> row.created_at,
     updated_at |-> row.updated_at,
     assigned_to |-> row.assigned_to,
     resolution |-> row.resolution]

\* getattr(request, 'escalation_level', 0)
GetEscalationLevel(request) ==
    IF "escalation_level" \in DOMAIN request
    THEN request.escalation_level
    ELSE 0

RECURSIVE SelectRows(_, _)
SelectRows(i, now) ==
    IF i > Len(rows) THEN <<>>
    ELSE IF rows[i].status = PENDING /\ rows[i].timeout_at < now
         THEN <<_row_to_help_request(i, rows[i])>> \o SelectRows(i + 1, now)
         ELSE SelectRows(i + 1, now)

check_timeouts == SelectRows(1, UtcNow)

\* the ids of the requests in the batch a sweeper holds
BatchIds(batch) == {batch[k].id : k \in DOMAIN batch}

UpdatedRow(row, status, assigned_to, resolution, now) ==
    [row EXCEPT !.status = status,
                !.updated_at = now,
                !.assigned_to = IF assigned_to # None THEN assigned_to ELSE @,
                !.resolution = IF resolution # None THEN resolution ELSE @]

HistoryEntry(level, assigned_to, reason) ==
    [timestamp |-> LocalNow, level |-> level,
     assigned_to |-> assigned_to, reason |-> reason]

\* variant: the UPDATE counts the level up from the stored one
EscalatedRow_counting(row, history, escalation_level, assigned_to, reason) ==
    [row EXCEPT !.status = TIMEOUT,
                !.escalation_level = row.escalation_level + 1,
                !.assigned_to = assigned_to,
                !.escalation_history =
                    Append(history,
                           HistoryEntry(row.escalation_level + 1,
                                        assigned_to, reason)),
                !.updated_at = UtcNow]

\* variant: the UPDATE leaves the status as it was
EscalatedRow_pending(row, history, escalation_level, assigned_to, reason) ==
    [row EXCEPT !.escalation_level = escalation_level,
                !.assigned_to = assigned_to,
                !.escalation_history =
                    Append(history,
                           HistoryEntry(escalation_level, assigned_to, reason)),
                !.updated_at = UtcNow]

EscalatedRow(row, history, escalation_level, assigned_to, reason) ==
    [row EXCEPT !.status = TIMEOUT,
                !.escalation_level = escalation_level,
                !.assigned_to = assigned_to,
                !.escalation_history =
                    Append(history,
                           HistoryEntry(escalation_level, assigned_to, reason)),
                !.updated_at = UtcNow]

\* f"All {level} escalation levels exhausted"
ExhaustedReason(level) ==
    CASE level = 0 -> "All 0 escalation levels exhausted"
      [] level = 1 -> "All 1 escalation levels exhausted"
      [] level = 2 -> "All 2 escalation levels exhausted"
      [] OTHER -> "All 3 escalation levels exhausted"

\* f"Unresolved: {reason}"
UnresolvedText(reason) ==
    CASE reason = "All 0 escalation levels exhausted" ->
             "Unresolved: All 0 escalation levels exhausted"
      [] reason = "All 1 escalation levels exhausted" ->
             "Unresolved: All 1 escalation levels exhausted"
      [] reason = "All 2 escalation levels exhausted" ->
             "Unresolved: All 2 escalation levels exhausted"
      [] OTHER -> "Unresolved: All 3 escalation levels exhausted"

UnresolvedRow(row, reason) ==
    [row EXCEPT !.status = UNRESOLVED,
                !.resolution = UnresolvedText(reason),
                !.updated_at = UtcNow]

\* ------------------------------------------------------------- resolver
RECURSIVE Filter(_, _)
Filter(list, name) ==
    IF list = <<>> THEN <<>>
    ELSE IF Head(list) # name
         THEN <<Head(list)>> \o Filter(Tail(list), name)
         ELSE Filter(Tail(list), name)

\* variant: the current assignee is not skipped
SelectBackup_unfiltered(supervisor_list, current_supervisor, level) ==
    IF supervisor_list = <<>> THEN None
    ELSE supervisor_list[((level - 1) % Len(supervisor_list)) + 1]

\* the body of _get_backup_supervisor on the list of the team's names
SelectBackup(supervisor_list, current_supervisor, level) ==
    LET available == Filter(supervisor_list, current_supervisor)
        available_supervisors ==
            IF available = <<>> THEN supervisor_list ELSE available
    IN  IF supervisor_list = <<>> THEN None
        ELSE available_supervisors[((level - 1) % Len(available_supervisors)) + 1]

\* supervisor_notifier.get_all_supervisors(), as list(supervisors.values())
get_all_supervisors == supervisors

_get_backup_supervisor(request, level) ==
    SelectBackup(get_all_supervisors, request.assigned_to, level)

\* ------------------------------------------------------------- notifier
\* the keys of SupervisorNotifier.supervisors
SupervisorIds == {"maria_rodriguez", "jennifer_smith", "david_chen"}

\* what a question is about, as far as the assignment reads it
Questions == {"color", "hair", "other"}

\* the local hours of the day a request is created at; the clock does not
\* fix the hour of the day its origin lies in
Hours == {8, 9, 19, 20}

\* _auto_assign_supervisor: nobody outside 9 to 19 o'clock, otherwise by
\* priority and then by the words of the question
_auto_assign_supervisor(priority, question, current_hour) ==
    IF ~(9 <= current_hour /\ current_hour <= 19) THEN None
    ELSE IF priority = "urgent" THEN "maria_rodriguez"
    ELSE IF question = "color" THEN "david_chen"
    ELSE IF question = "hair" THEN "jennifer_smith"
    ELSE "maria_rodriguez"

\* notify_supervisor: what the call returns; it never raises. No
\* supervisor is found under a supervisor_id that is not a key, and a
\* message or webhook that cannot be delivered is caught
notify_supervisor(priority, question, supervisor_id, current_hour, delivered) ==
    LET assigned ==
            IF supervisor_id = None
            THEN _auto_assign_supervisor(priority, question, current_hour)
            ELSE supervisor_id
    IN  /\ assigned # None
        /\ assigned \in SupervisorIds
        /\ delivered

\* ---------------------------------------------------------------- Init
\* the table as the constructor of HelpRequestDB leaves a new store; no
\* request has been routed and no statistics call is under way
InitExtended ==
    /\ columns = TableColumns
    /\ init_runs = <<{}>>
    /\ routed = <<>>
    /\ reading = <<>>

\* nothing has been notified, swept or queried yet
InitObserved ==
    /\ notify_calls = {}
    /\ service_returned = [called |-> FALSE, raised |-> FALSE,
                           returned |-> <<>>]
    /\ swept = [s \in Sweepers |-> {}]
    /\ failed = [s \in Sweepers |-> {}]
    /\ queried = <<>>

Init ==
    /\ rows = <<>>
    /\ clock = 0
    /\ tz \in TzOffsets
    /\ supervisors = _load_supervisors
    /\ pc = [s \in Sweepers |-> "idle"]
    /\ timed_out_requests = [s \in Sweepers |-> <<>>]
    /\ current_history = [s \in Sweepers |-> <<>>]
    /\ actions = [s \in Sweepers |-> <<>>]
    /\ n_updates = 0
    /\ expiry_sweeps = [i \in Ids |-> 0]
    /\ manual_resolved = [i \in Ids |-> FALSE]
    /\ swept_late = [i \in Ids |-> FALSE]
    /\ created = [raised |-> FALSE, returned |-> <<>>]
    /\ update_returned = <<>>
    /\ resolved = <<>>
    /\ InitObserved
    /\ InitExtended

\* -------------------------------------------------------------- actions
Tick ==
    /\ clock + TickStep <= MaxClock
    /\ clock' = clock + TickStep
    /\ UNCHANGED <<rows, tz, supervisors, sweepVars, n_updates, ghostVars,
                   callVars, obsVars, extVars>>

\* variant: the INSERT reuses the highest id in use and replaces its row
InsertRequest_replacing(priority, ok) ==
    LET id == IF rows = <<>> THEN 1 ELSE Len(rows)
    IN  IF TimeoutAtRaises(LocalNow, priority) \/ ~ok
        THEN /\ created' = [raised |-> TRUE, returned |-> <<>>]
             /\ UNCHANGED rows
        ELSE /\ rows' = [k \in 1..id |->
                            IF k = id THEN NewRow(LocalNow, priority)
                            ELSE rows[k]]
             /\ created' =
                  [raised |-> FALSE,
                   returned |-> <<_row_to_help_request(
                                     id, NewRow(LocalNow, priority))>>]

\* HelpRequestDB.create_help_request: raises when the deadline cannot be
\* computed; otherwise inserts one row and returns the request built from
\* the values it inserted
\* with ok = FALSE the INSERT fails, and the exception is raised again
InsertRequest(priority, ok) ==
    IF TimeoutAtRaises(LocalNow, priority) \/ ~ok
    THEN /\ created' = [raised |-> TRUE, returned |-> <<>>]
         /\ UNCHANGED rows
    ELSE /\ rows' = Append(rows, NewRow(LocalNow, priority))
         /\ created' =
              [raised |-> FALSE,
               returned |-> <<_row_to_help_request(
                                 Len(rows) + 1, NewRow(LocalNow, priority))>>]

create_help_request(priority) ==
    /\ Len(rows) < MaxRequests
    /\ InsertRequest(priority, TRUE)
    /\ UNCHANGED <<clock, tz, supervisors, sweepVars, n_updates, ghostVars,
                   update_returned, resolved, obsVars, extVars>>

\* HelpRequestDB.update_request_status: the UPDATE has no condition but the
\* id; an id without a row updates nothing; the call returns True whenever
\* the statement did not raise
update_request_status(request_id, status, assigned_to, resolution) ==
    /\ n_updates < MaxUpdates
    /\ n_updates' = n_updates + 1
    /\ update_returned' = <<TRUE>>
    /\ IF request_id \in Stored
       THEN /\ rows' = [rows EXCEPT ![request_id] =
                           UpdatedRow(@, status, assigned_to, resolution, UtcNow)]
            /\ manual_resolved' =
                 [manual_resolved EXCEPT ![request_id] =
                     /\ status = RESOLVED
                     /\ rows[request_id].status = PENDING
                     /\ rows[request_id].escalation_level = 0]
       ELSE UNCHANGED <<rows, manual_resolved>>
    /\ UNCHANGED <<clock, tz, supervisors, sweepVars, expiry_sweeps,
                   swept_late, created, resolved, obsVars, extVars>>

\* process_timeouts, up to and including check_timeouts; with observe the
\* sweep is counted for every request that is past its deadline
StartSweep(s, observe, record) ==
    /\ pc[s] = "idle"
    /\ pc' = [pc EXCEPT ![s] = "handle"]
    /\ timed_out_requests' = [timed_out_requests EXCEPT ![s] = check_timeouts]
    /\ actions' = [actions EXCEPT ![s] = <<>>]
    /\ expiry_sweeps' =
         [i \in Ids |->
             IF observe /\ i \in Stored /\ rows[i].timeout_at < UtcNow
             THEN Min(expiry_sweeps[i] + 1, MaxCount)
             ELSE expiry_sweeps[i]]
    /\ swept_late' =
         [i \in Ids |->
             \/ swept_late[i]
             \/ /\ observe
                /\ i \in Stored
                /\ rows[i].status = PENDING
                /\ WindowEnd(rows[i]) < LocalNow]
    /\ swept' = [swept EXCEPT ![s] =
                     IF record THEN BatchIds(check_timeouts) ELSE {}]
    /\ failed' = [failed EXCEPT ![s] = {}]
    /\ UNCHANGED <<rows, clock, tz, supervisors, current_history, n_updates,
                   manual_resolved, callVars, notify_calls, service_returned,
                   queried, extVars>>

\* variant: the action is reported whether or not mark_unresolved stored
\* the status
MarkFinalUnresolved_reporting(s, request, ok) ==
    LET reason == ExhaustedReason(GetEscalationLevel(request))
    IN  /\ IF ok
           THEN rows' = [rows EXCEPT ![request.id] = UnresolvedRow(@, reason)]
           ELSE UNCHANGED rows
        /\ actions' = [actions EXCEPT ![s] =
               Append(@, [action |-> "unresolved",
                          request_id |-> request.id])]
        /\ failed' = [failed EXCEPT ![s] =
                         IF ~ok /\ request.id \in swept[s]
                         THEN @ \cup {request.id}
                         ELSE @]
        /\ timed_out_requests' = [timed_out_requests EXCEPT ![s] = Tail(@)]
        /\ pc' = [pc EXCEPT ![s] = "handle"]
        /\ current_history' = [current_history EXCEPT ![s] = <<>>]

\* variant: a mark_unresolved that fails ends the sweep, and the rest of
\* the batch is dropped
MarkFinalUnresolved_aborting(s, request, ok) ==
    LET reason == ExhaustedReason(GetEscalationLevel(request))
    IN  /\ IF ok
           THEN /\ rows' = [rows EXCEPT ![request.id] = UnresolvedRow(@, reason)]
                /\ actions' = [actions EXCEPT ![s] =
                       Append(@, [action |-> "unresolved",
                                  request_id |-> request.id])]
           ELSE UNCHANGED <<rows, actions>>
        /\ failed' = [failed EXCEPT ![s] =
                         IF ~ok /\ request.id \in swept[s]
                         THEN @ \cup {request.id}
                         ELSE @]
        /\ timed_out_requests' = [timed_out_requests EXCEPT ![s] =
                                     IF ok THEN Tail(@) ELSE <<>>]
        /\ pc' = [pc EXCEPT ![s] = "handle"]
        /\ current_history' = [current_history EXCEPT ![s] = <<>>]

\* _mark_final_unresolved: mark_unresolved, and the action it reports
MarkFinalUnresolved(s, request, ok) ==
    LET reason == ExhaustedReason(GetEscalationLevel(request))
    IN  /\ IF ok
           THEN /\ rows' = [rows EXCEPT ![request.id] = UnresolvedRow(@, reason)]
                /\ actions' = [actions EXCEPT ![s] =
                       Append(@, [action |-> "unresolved",
                                  request_id |-> request.id])]
           ELSE UNCHANGED <<rows, actions>>
        /\ failed' = [failed EXCEPT ![s] =
                         IF ~ok /\ request.id \in swept[s]
                         THEN @ \cup {request.id}
                         ELSE @]
        /\ timed_out_requests' = [timed_out_requests EXCEPT ![s] = Tail(@)]
        /\ pc' = [pc EXCEPT ![s] = "handle"]
        /\ current_history' = [current_history EXCEPT ![s] = <<>>]

\* _handle_timeout up to the SELECT of escalate_request; a SELECT that
\* fails makes escalate_request return False
HandleTimeout(s, ok) ==
    /\ pc[s] = "handle"
    /\ timed_out_requests[s] # <<>>
    /\ LET request == Head(timed_out_requests[s])
           current_level == GetEscalationLevel(request)
           max_levels == escalation_levels[request.priority]
           next_level == current_level + 1
           backup_supervisor == _get_backup_supervisor(request, next_level)
       IN  IF current_level >= max_levels \/ backup_supervisor = None
           THEN MarkFinalUnresolved(s, request, ok)
           ELSE IF ok
                THEN /\ current_history' = [current_history EXCEPT ![s] =
                            rows[request.id].escalation_history]
                     /\ pc' = [pc EXCEPT ![s] = "escalate"]
                     /\ UNCHANGED <<rows, timed_out_requests, actions,
                                    failed>>
                ELSE \E ok2 \in BOOLEAN :
                         MarkFinalUnresolved(s, request, ok2)
    /\ UNCHANGED <<clock, tz, supervisors, n_updates, ghostVars, callVars,
                   notify_calls, service_returned, swept, queried, extVars>>

\* the UPDATE of escalate_request and the rest of _handle_timeout
EscalateRequest(s, ok) ==
    /\ pc[s] = "escalate"
    /\ LET request == Head(timed_out_requests[s])
           current_level == GetEscalationLevel(request)
           next_level == current_level + 1
           backup_supervisor == _get_backup_supervisor(request, next_level)
       IN  IF ok
           THEN /\ rows' = [rows EXCEPT ![request.id] =
                       EscalatedRow(@, current_history[s], next_level,
                                    backup_supervisor,
                                    <<"Escalated", current_level, next_level>>)]
                /\ actions' = [actions EXCEPT ![s] =
                       Append(@, [action |-> "escalated",
                                  request_id |-> request.id,
                                  level |-> next_level,
                                  supervisor |-> backup_supervisor])]
                /\ timed_out_requests' =
                       [timed_out_requests EXCEPT ![s] = Tail(@)]
                /\ pc' = [pc EXCEPT ![s] = "handle"]
                /\ current_history' = [current_history EXCEPT ![s] = <<>>]
                \* the supervisor found is passed where the id is expected,
                \* so neither the assignment nor the delivery is reached
                /\ notify_calls' = notify_calls \cup
                       {[request_id |-> request.id,
                         origin |-> "escalation",
                         returned |->
                             notify_supervisor(request.priority, "other",
                                               backup_supervisor, 9, TRUE)]}
                /\ UNCHANGED failed
           ELSE /\ \E ok2 \in BOOLEAN : MarkFinalUnresolved(s, request, ok2)
                /\ UNCHANGED notify_calls
    /\ UNCHANGED <<clock, tz, supervisors, n_updates, ghostVars, callVars,
                   service_returned, swept, queried, extVars>>

\* the batch is exhausted: _check_final_escalations does nothing and
\* process_timeouts returns
FinishSweep(s) ==
    /\ pc[s] = "handle"
    /\ timed_out_requests[s] = <<>>
    /\ pc' = [pc EXCEPT ![s] = "idle"]
    /\ UNCHANGED <<rows, clock, tz, supervisors, timed_out_requests,
                   current_history, actions, n_updates, ghostVars, callVars,
                   obsVars, extVars>>

SweepStep(s) ==
    \/ StartSweep(s, FALSE, FALSE)
    \/ \E ok \in BOOLEAN : HandleTimeout(s, ok)
    \/ \E ok \in BOOLEAN : EscalateRequest(s, ok)
    \/ FinishSweep(s)

Create == \E p \in HelpRequestPriority : create_help_request(p)

Update ==
    \E id \in Ids, st \in HelpRequestStatus,
       a \in AssignedToInputs, r \in ResolutionInputs :
        update_request_status(id, st, a, r)

Sweep == \E s \in Sweepers : SweepStep(s)

Next == Tick \/ Create \/ Update \/ Sweep

Spec == Init /\ [][Next]_vars

\* no manual update and no store failure: requests are created, time passes
\* and the sweep runs
AutoSweepStep(s) ==
    \/ StartSweep(s, TRUE, FALSE)
    \/ HandleTimeout(s, TRUE)
    \/ EscalateRequest(s, TRUE)
    \/ FinishSweep(s)

AutoSweep == \E s \in Sweepers : AutoSweepStep(s)

NextAuto == Tick \/ Create \/ AutoSweep

AutoSpec == Init /\ [][NextAuto]_vars

LiveSpec ==
    /\ Init
    /\ [][NextAuto]_vars
    /\ WF_vars(Tick)
    /\ \A s \in Sweepers : WF_vars(AutoSweepStep(s))

\* requests created at every minute of the hour
InitCreate ==
    /\ rows = <<>>
    /\ tz \in TzOffsets
    /\ clock \in {t - tz : t \in CreationTimes}
    /\ supervisors = _load_supervisors
    /\ pc = [s \in Sweepers |-> "idle"]
    /\ timed_out_requests = [s \in Sweepers |-> <<>>]
    /\ current_history = [s \in Sweepers |-> <<>>]
    /\ actions = [s \in Sweepers |-> <<>>]
    /\ n_updates = 0
    /\ expiry_sweeps = [i \in Ids |-> 0]
    /\ manual_resolved = [i \in Ids |-> FALSE]
    /\ swept_late = [i \in Ids |-> FALSE]
    /\ created = [raised |-> FALSE, returned |-> <<>>]
    /\ update_returned = <<>>
    /\ resolved = <<>>
    /\ InitObserved
    /\ InitExtended

CreateSpec == InitCreate /\ [][Create]_vars

\* SupervisorNotifier.add_supervisor under a new supervisor_id: the entry
\* goes to the end of the dictionary
add_supervisor(name) ==
    /\ Len(supervisors) < MaxTeam
    /\ supervisors' = Append(supervisors, name)
    /\ UNCHANGED <<rows, clock, tz, sweepVars, n_updates, ghostVars, callVars,
                   obsVars, extVars>>

\* one call of _get_backup_supervisor on a request with the given assignee;
\* the call is recorded with the team it read
ResolveCall(assigned_to, level) ==
    /\ resolved' =
         <<[team |-> get_all_supervisors,
            assigned_to |-> assigned_to,
            level |-> level,
            supervisor |->
                _get_backup_supervisor([assigned_to |-> assigned_to], level)]>>
    /\ UNCHANGED <<rows, clock, tz, supervisors, sweepVars, n_updates,
                   ghostVars, created, update_returned, obsVars, extVars>>

AddSupervisor == \E name \in SupervisorNames : add_supervisor(name)

Resolve ==
    \E a \in ResolverAssignees, l \in ResolverLevels : ResolveCall(a, l)

\* the resolver on every team of up to MaxTeam members
InitResolver ==
    /\ rows = <<>>
    /\ clock = 0
    /\ tz = 0
    /\ supervisors \in Teams
    /\ pc = [s \in Sweepers |-> "idle"]
    /\ timed_out_requests = [s \in Sweepers |-> <<>>]
    /\ current_history = [s \in Sweepers |-> <<>>]
    /\ actions = [s \in Sweepers |-> <<>>]
    /\ n_updates = 0
    /\ expiry_sweeps = [i \in Ids |-> 0]
    /\ manual_resolved = [i \in Ids |-> FALSE]
    /\ swept_late = [i \in Ids |-> FALSE]
    /\ created = [raised |-> FALSE, returned |-> <<>>]
    /\ update_returned = <<>>
    /\ resolved = <<>>
    /\ InitObserved
    /\ InitExtended

NextResolver == AddSupervisor \/ Resolve

ResolverSpec == InitResolver /\ [][NextResolver]_vars

\* what the notification of a newly created request can return, over the
\* questions, the hours of the day and the fate of the delivery
NotifyOutcomes(priority) ==
    {notify_supervisor(priority, q, None, h, delivered) :
        q \in Questions, h \in Hours, delivered \in BOOLEAN}

\* a creation that returns None as soon as the notification fails
HelpRequestService_create_help_request_aborting(priority, ok, notified) ==
    /\ Len(rows) < MaxRows
    /\ InsertRequest(priority, ok)
    /\ IF created'.raised
       THEN /\ service_returned' = [called |-> TRUE, raised |-> FALSE,
                                     returned |-> <<>>]
            /\ UNCHANGED notify_calls
       ELSE /\ notify_calls' = notify_calls \cup
                   {[request_id |-> Len(rows) + 1,
                     origin |-> "creation",
                     returned |-> notified]}
            /\ service_returned' =
                   [called |-> TRUE, raised |-> FALSE,
                    returned |-> IF notified THEN created'.returned ELSE <<>>]
    /\ UNCHANGED <<clock, tz, supervisors, sweepVars, n_updates, ghostVars,
                   update_returned, resolved, swept, failed, queried,
                   columns, reading, init_runs>>

\* HelpRequestService.create_help_request: the store's create_help_request,
\* then the notification, which returns notified and whose result is not
\* read, then the request is returned; an exception of the store is caught
\* and None is returned, so the call itself never raises
HelpRequestService_create_help_request(priority, ok, notified) ==
    /\ Len(rows) < MaxRows
    /\ InsertRequest(priority, ok)
    /\ IF created'.raised
       THEN /\ service_returned' = [called |-> TRUE, raised |-> FALSE,
                                     returned |-> <<>>]
            /\ UNCHANGED notify_calls
       ELSE /\ notify_calls' = notify_calls \cup
                   {[request_id |-> Len(rows) + 1,
                     origin |-> "creation",
                     returned |-> notified]}
            /\ service_returned' =
                   [called |-> TRUE, raised |-> FALSE,
                    returned |-> created'.returned]
    /\ UNCHANGED <<clock, tz, supervisors, sweepVars, n_updates, ghostVars,
                   update_returned, resolved, swept, failed, queried,
                   columns, reading, init_runs>>

\* which supervisor the notification went to is not recorded
ServiceCreate ==
    \E p \in HelpRequestPriority, ok \in BOOLEAN :
        \E notified \in NotifyOutcomes(p) :
            /\ HelpRequestService_create_help_request(p, ok, notified)
            /\ UNCHANGED routed

\* one sweeper at a time, with store failures, on a store of up to MaxRows
\* requests created through the service; nobody updates by hand
BatchSweeper == "s1"

BatchSweepStep ==
    \/ StartSweep(BatchSweeper, FALSE, TRUE)
    \/ \E ok \in BOOLEAN : HandleTimeout(BatchSweeper, ok)
    \/ \E ok \in BOOLEAN : EscalateRequest(BatchSweeper, ok)
    \/ FinishSweep(BatchSweeper)

NextBatch == Tick \/ ServiceCreate \/ BatchSweepStep

BatchSpec == Init /\ [][NextBatch]_vars

\* -------------------------------------------------------------- queries
\* the place of a priority among the stored texts, as SQLite compares them:
\* 'high' < 'low' < 'medium' < 'urgent'
TextRank(priority) ==
    CASE priority = "high" -> 1
      [] priority = "low" -> 2
      [] priority = "medium" -> 3
      [] priority = "urgent" -> 4

\* ORDER BY priority DESC, created_at ASC: row a may come before row b
OrderedBefore(a, b) ==
    \/ TextRank(a.priority) > TextRank(b.priority)
    \/ /\ a.priority = b.priority
       /\ a.created_at <= b.created_at

\* WHERE status = 'pending'
PendingIds == {i \in Stored : rows[i].status = PENDING}

\* the orders in which the SELECT can return the pending rows; the order of
\* rows that agree on priority and created_at is not fixed by the statement
RECURSIVE SortedOrders(_)
SortedOrders(ids) ==
    IF ids = {} THEN {<<>>}
    ELSE UNION {{<<first>> \o rest : rest \in SortedOrders(ids \ {first})} :
                   first \in {i \in ids :
                                 \A j \in ids :
                                     OrderedBefore(rows[i], rows[j])}}

PendingOrders == SortedOrders(PendingIds)

\* the limits a caller passes
Limits == 0..MaxStatRows

\* HelpRequestDB.get_pending_requests: the first limit pending rows
get_pending_requests(limit) ==
    /\ \E order \in PendingOrders :
          queried' =
              <<[op |-> "get_pending_requests",
                 limit |-> limit,
                 result |-> [k \in 1..Min(limit, Len(order)) |->
                                _row_to_help_request(order[k], rows[order[k]])]]>>
    /\ UNCHANGED <<rows, clock, tz, supervisors, sweepVars, n_updates,
                   ghostVars, callVars, notify_calls, service_returned,
                   swept, failed, extVars>>

\* the integer nearest to num / den, a tie going to the even one, as
\* round() rounds; den is positive
Round(num, den) ==
    LET q == num \div den
        r == num - q * den
    IN  IF 2 * r < den THEN q
        ELSE IF 2 * r > den THEN q + 1
        ELSE IF q % 2 = 0 THEN q ELSE q + 1

RECURSIVE SumOver(_, _)
SumOver(ids, f) ==
    IF ids = {} THEN 0
    ELSE LET i == CHOOSE j \in ids : TRUE
         IN  f[i] + SumOver(ids \ {i}, f)

\* SELECT x, COUNT(*) ... GROUP BY x, as a dict: only the values that
\* some row has are keys
CountBy(field) ==
    [v \in {field[i] : i \in Stored} |->
        Cardinality({i \in Stored : field[i] = v})]

\* variant: the timeout count leaves the unresolved requests out
get_statistics_timeouts ==
    LET resolved_ids == {i \in Stored : rows[i].status = RESOLVED}
        escalated_ids == {i \in Stored : rows[i].escalation_level > 0}
    IN  [total_requests |-> Len(rows),
         status_counts |-> CountBy([i \in Stored |-> rows[i].status]),
         priority_counts |-> CountBy([i \in Stored |-> rows[i].priority]),
         avg_response_time_minutes |->
             IF resolved_ids = {} THEN 0
             ELSE Round(SumOver(resolved_ids,
                                [i \in Stored |->
                                    rows[i].updated_at - rows[i].created_at]),
                        6 * Cardinality(resolved_ids)),
         timeout_count |->
             Cardinality({i \in Stored : rows[i].status = TIMEOUT}),
         avg_escalation_level |->
             IF escalated_ids = {} THEN 0
             ELSE Round(10 * SumOver(escalated_ids,
                                     [i \in Stored |-> rows[i].escalation_level]),
                        Cardinality(escalated_ids))]

\* HelpRequestDB.get_statistics: the dict it returns. The two averages are
\* in tenths: of a minute (seconds / 6 per request) and of a level
get_statistics ==
    LET resolved_ids == {i \in Stored : rows[i].status = RESOLVED}
        escalated_ids == {i \in Stored : rows[i].escalation_level > 0}
    IN  [total_requests |-> Len(rows),
         status_counts |-> CountBy([i \in Stored |-> rows[i].status]),
         priority_counts |-> CountBy([i \in Stored |-> rows[i].priority]),
         avg_response_time_minutes |->
             IF resolved_ids = {} THEN 0
             ELSE Round(SumOver(resolved_ids,
                                [i \in Stored |->
                                    rows[i].updated_at - rows[i].created_at]),
                        6 * Cardinality(resolved_ids)),
         timeout_count |->
             Cardinality({i \in Stored :
                             rows[i].status \in {TIMEOUT, UNRESOLVED}}),
         avg_escalation_level |->
             IF escalated_ids = {} THEN 0
             ELSE Round(10 * SumOver(escalated_ids,
                                     [i \in Stored |-> rows[i].escalation_level]),
                        Cardinality(escalated_ids))]

\* dict.get(key, 0)
Get(dict, key) == IF key \in DOMAIN dict THEN dict[key] ELSE 0

\* variant: with nothing timed out the rate is 0.0
_calculate_escalation_success_rate_zero ==
    LET stats == get_statistics
        total_timeouts == stats.timeout_count
        total_unresolved == Get(stats.status_counts, UNRESOLVED)
    IN  IF total_timeouts = 0 THEN 0
        ELSE Round(1000 * (total_timeouts - total_unresolved), total_timeouts)

\* TimeoutHandler._calculate_escalation_success_rate, in tenths of a percent
_calculate_escalation_success_rate ==
    LET stats == get_statistics
        total_timeouts == stats.timeout_count
        total_unresolved == Get(stats.status_counts, UNRESOLVED)
    IN  IF total_timeouts = 0 THEN 1000
        ELSE Round(1000 * (total_timeouts - total_unresolved), total_timeouts)

\* a call of get_statistics
GetStatistics ==
    /\ queried' = <<[op |-> "get_statistics", result |-> get_statistics]>>
    /\ UNCHANGED <<rows, clock, tz, supervisors, sweepVars, n_updates,
                   ghostVars, callVars, notify_calls, service_returned,
                   swept, failed, extVars>>

\* TimeoutHandler.get_lifecycle_stats
get_lifecycle_stats ==
    /\ queried' =
         <<[op |-> "get_lifecycle_stats",
            result |->
               LET stats == get_statistics
               IN  [total_requests |-> stats.total_requests,
                    pending_requests |-> Get(stats.status_counts, PENDING),
                    timeout_requests |-> Get(stats.status_counts, TIMEOUT),
                    unresolved_requests |->
                        Get(stats.status_counts, UNRESOLVED),
                    resolved_requests |-> Get(stats.status_counts, RESOLVED),
                    timeout_count |-> stats.timeout_count,
                    avg_escalation_level |-> stats.avg_escalation_level,
                    escalation_success_rate |->
                        _calculate_escalation_success_rate]]>>
    /\ UNCHANGED <<rows, clock, tz, supervisors, sweepVars, n_updates,
                   ghostVars, callVars, notify_calls, service_returned,
                   swept, failed, extVars>>

GetPending == \E limit \in Limits : get_pending_requests(limit)

\* the instants, in seconds, at which the requests of a stored population
\* were created and last updated
CreationInstants == {0, 300}
UpdateInstants == {300, 900}

\* the priority of the requests of a population that have left PENDING;
\* the pending ones come in every priority
SettledPriorities == {"medium"}

\* a stored request by its history: created at c and still pending, or
\* created at the first instant and put into another status at u
StatShapes ==
    {[c |-> c, u |-> c, status |-> PENDING, priority |-> p] :
        c \in CreationInstants, p \in HelpRequestPriority}
    \cup
    {[c |-> 0, u |-> u, status |-> RESOLVED, priority |-> p] :
        u \in UpdateInstants, p \in SettledPriorities}
    \cup
    {[c |-> 0, u |-> 300, status |-> s, priority |-> p] :
        s \in {IN_PROGRESS, TIMEOUT, UNRESOLVED}, p \in SettledPriorities}

\* the row of such a request: created_at is local time, and the manual
\* update writes the status and updated_at in UTC
StatRow(shape) ==
    IF shape.status = PENDING
    THEN NewRow(shape.c + tz, shape.priority)
    ELSE UpdatedRow(NewRow(shape.c + tz, shape.priority),
                    shape.status, None, None, shape.u)

\* the populations of up to MaxStatRows requests, in the order of their
\* creation
StatStores ==
    {store \in UNION {[1..n -> StatShapes] : n \in 0..MaxStatRows} :
        \A k \in 1..(Len(store) - 1) : store[k].c <= store[k + 1].c}

InitStats ==
    /\ tz \in TzOffsets
    /\ clock = 900
    /\ \E store \in StatStores :
          rows = [k \in DOMAIN store |-> StatRow(store[k])]
    /\ supervisors = _load_supervisors
    /\ pc = [s \in Sweepers |-> "idle"]
    /\ timed_out_requests = [s \in Sweepers |-> <<>>]
    /\ current_history = [s \in Sweepers |-> <<>>]
    /\ actions = [s \in Sweepers |-> <<>>]
    /\ n_updates = 0
    /\ expiry_sweeps = [i \in Ids |-> 0]
    /\ manual_resolved = [i \in Ids |-> FALSE]
    /\ swept_late = [i \in Ids |-> FALSE]
    /\ created = [raised |-> FALSE, returned |-> <<>>]
    /\ update_returned = <<>>
    /\ resolved = <<>>
    /\ InitObserved
    /\ InitExtended

NextStats == GetPending \/ GetStatistics \/ get_lifecycle_stats

StatsSpec == InitStats /\ [][NextStats]_vars

\* ================================================================ claims

\* the terminal statuses of the lifecycle
Terminal == {RESOLVED, UNRESOLVED}

AllIdle == \A s \in Sweepers : pc[s] = "idle"

MaxLevels(i) == escalation_levels[rows[i].priority]

IsPrefix(a, b) == Len(a) <= Len(b) /\ SubSeq(b, 1, Len(a)) = a

\* a step of a manual update counts it; every other step leaves the count
HumanStep == n_updates' # n_updates

\* C1: with the sweep run again and again, time passing and no human acting,
\* every request whose deadline lies within the horizon of the clock
\* eventually has status RESOLVED or UNRESOLVED.
C1_EventuallyTerminal ==
    \A i \in Ids :
        (i \in Stored /\ rows[i].timeout_at < MaxClock)
            ~> (i \in Stored /\ rows[i].status \in Terminal)

\* C2: once a request is RESOLVED or UNRESOLVED no step changes its status,
\* escalation level or escalation history, nor a resolution or assignee that
\* is already set.
C2_TerminalImmutable ==
    [][\A i \in Stored :
          rows[i].status \in Terminal =>
              /\ rows'[i].status = rows[i].status
              /\ rows'[i].escalation_level = rows[i].escalation_level
              /\ rows'[i].escalation_history = rows[i].escalation_history
              /\ (rows[i].resolution # None =>
                      rows'[i].resolution = rows[i].resolution)
              /\ (rows[i].assigned_to # None =>
                      rows'[i].assigned_to = rows[i].assigned_to)]_vars

\* C3: in every reachable state the escalation level of every stored request
\* equals the number of entries of its escalation history.
C3_LevelIsHistoryLength ==
    \A i \in Stored :
        rows[i].escalation_level = Len(rows[i].escalation_history)

\* C4: with no human acting, once N sweeps have run past a request's deadline
\* and none is still running, its escalation level is min(N, maxLevels) and
\* its history has that many entries.
C4_LevelAfterNSweeps ==
    AllIdle =>
        \A i \in Stored :
            /\ rows[i].escalation_level = Min(expiry_sweeps[i], MaxLevels(i))
            /\ Len(rows[i].escalation_history) =
                   Min(expiry_sweeps[i], MaxLevels(i))

\* C5: with no human acting, once more sweeps than maxLevels have run past a
\* request's deadline the request is UNRESOLVED, its resolution is set and
\* its history has exactly maxLevels entries.
C5_ExhaustedIsUnresolved ==
    AllIdle =>
        \A i \in Stored :
            expiry_sweeps[i] > MaxLevels(i) =>
                /\ rows[i].status = UNRESOLVED
                /\ rows[i].resolution # None
                /\ rows[i].escalation_level = MaxLevels(i)
                /\ Len(rows[i].escalation_history) = MaxLevels(i)

\* C6: a write of the sweep never replaces the status of a request that a
\* human has resolved in the meantime: a RESOLVED request is still RESOLVED
\* after every step that is not a manual update.
C6_SweepKeepsResolved ==
    [][\A i \in Stored :
          (rows[i].status = RESOLVED /\ ~HumanStep) =>
              rows'[i].status = RESOLVED]_vars

\* C7: sweeps never overlap, so with no human acting a request is escalated
\* at most once per level: no two entries of its history carry the same
\* level.
C7_NoDuplicateEscalation ==
    \A i \in Stored :
        \A j, k \in DOMAIN rows[i].escalation_history :
            j # k => rows[i].escalation_history[j].level
                         # rows[i].escalation_history[k].level

\* C8: the escalation level never decreases, the history only grows at its
\* end, and every escalation a sweep reports as done has added one entry.
C8_HistoryAppendOnly ==
    [][\A i \in Stored :
          /\ rows'[i].escalation_level >= rows[i].escalation_level
          /\ IsPrefix(rows[i].escalation_history, rows'[i].escalation_history)
          /\ \A s \in Sweepers :
                (/\ Len(actions'[s]) = Len(actions[s]) + 1
                 /\ actions'[s][Len(actions'[s])].action = "escalated"
                 /\ actions'[s][Len(actions'[s])].request_id = i)
                    => Len(rows'[i].escalation_history) =
                           Len(rows[i].escalation_history) + 1]_vars

\* C9: a request that is PENDING, IN_PROGRESS or TIMEOUT has no resolution;
\* the resolution is written only by a step that enters RESOLVED or
\* UNRESOLVED, and never a second time.
C9_ResolutionOnlyOnTerminal ==
    [][\A i \in 1..Len(rows') :
          /\ rows'[i].status \notin Terminal => rows'[i].resolution = None
          /\ (i \in Stored /\ rows'[i].resolution # rows[i].resolution) =>
                 /\ rows[i].resolution = None
                 /\ rows[i].status \notin Terminal
                 /\ rows'[i].status \in Terminal]_vars

\* C10: a request resolved by hand while PENDING at level 0, and not updated
\* by hand since, never has status TIMEOUT and stays at level 0, whatever
\* the sweeps do.
C10_ResolvedNeverTimesOut ==
    \A i \in Stored :
        manual_resolved[i] =>
            /\ rows[i].status # TIMEOUT
            /\ rows[i].escalation_level = 0

\* C11: in every reachable state the escalation level of every stored
\* request is at most the number of levels of its priority (urgent 3,
\* high 3, medium 2, low 2).
C11_LevelWithinMax ==
    \A i \in Stored : rows[i].escalation_level <= MaxLevels(i)

\* a request escalated more often than its priority has levels
C11_Witness ==
    \E i \in Stored :
        /\ Len(rows[i].escalation_history) > MaxLevels(i)
        /\ rows[i].escalation_level > 0

\* C12: the batch a sweep starts with holds exactly the stored requests
\* whose status is PENDING or TIMEOUT and whose timeout_at is earlier than
\* the store's clock, each once.
C12_ExpiredExactly ==
    [][\A s \in Sweepers :
          (pc[s] = "idle" /\ pc'[s] = "handle") =>
              /\ BatchIds(timed_out_requests'[s]) =
                     {i \in Stored :
                         /\ rows[i].status \in {PENDING, TIMEOUT}
                         /\ rows[i].timeout_at < UtcNow}
              /\ Len(timed_out_requests'[s]) =
                     Cardinality(BatchIds(timed_out_requests'[s]))]_vars

\* C13: whatever the priority and the time of creation, the timeout_at of
\* a created request is the time of creation plus the window of its
\* priority (urgent 5, high 10, medium 15, low 30 minutes), hence never
\* earlier than that.
C13_DeadlineIsWindow ==
    [][Len(rows') = Len(rows) + 1 =>
          LET row == rows'[Len(rows')]
          IN  /\ row.created_at = LocalNow
              /\ row.timeout_at = WindowEnd(row)
              /\ row.timeout_at >= LocalNow + 60 * timeout_map[row.priority]]_vars

\* C14: create_help_request with one of the four priorities succeeds at
\* every time of creation: it adds exactly one row, PENDING at level 0 with
\* an empty history, no assignee and no resolution, and returns that
\* request.
C14_CreateSucceeds ==
    [][(created' # created \/ rows' # rows) =>
          /\ ~created'.raised
          /\ Len(rows') = Len(rows) + 1
          /\ SubSeq(rows', 1, Len(rows)) = rows
          /\ LET row == rows'[Len(rows')]
             IN  /\ row.status = PENDING
                 /\ row.escalation_level = 0
                 /\ row.escalation_history = <<>>
                 /\ row.assigned_to = None
                 /\ row.resolution = None
                 /\ created'.returned =
                        <<_row_to_help_request(Len(rows'), row)>>]_vars

\* C15: with no human acting and a team that is not empty, a request that
\* was PENDING when a sweep started after its window had elapsed has, once
\* the sweeps are done, status TIMEOUT, level 1, one history entry and the
\* assignee the resolver chooses for it at level 1.
C15_LateSweepEscalates ==
    AllIdle =>
        \A i \in Stored :
            swept_late[i] =>
                /\ rows[i].status = TIMEOUT
                /\ rows[i].escalation_level = 1
                /\ Len(rows[i].escalation_history) = 1
                /\ rows[i].assigned_to = SelectBackup(supervisors, None, 1)

\* C16: a request that is RESOLVED or UNRESOLVED is not put into a terminal
\* status a second time: no step that finds it terminal and leaves it
\* terminal changes its status or its resolution, and when that step is a
\* manual update of the only request there is, the update returns False.
C16_SecondTerminalRejected ==
    [][\A i \in Stored :
          (rows[i].status \in Terminal /\ rows'[i].status \in Terminal) =>
              /\ rows'[i].status = rows[i].status
              /\ rows'[i].resolution = rows[i].resolution
              /\ (HumanStep /\ Ids = {i}) => update_returned' = <<FALSE>>]_vars

\* C17: a step of the sweep makes a request UNRESOLVED only when its levels
\* are used up (stored level + 1 exceeds the levels of its priority) or the
\* team is empty, so that the resolver has nobody to return; a failed
\* escalate_request alone does not.
C17_UnresolvedOnlyWhenExhausted ==
    [][\A i \in Stored :
          (/\ ~HumanStep
           /\ rows[i].status # UNRESOLVED
           /\ rows'[i].status = UNRESOLVED) =>
              \/ rows[i].escalation_level + 1 > MaxLevels(i)
              \/ supervisors = <<>>]_vars

\* the names carried by the members of a team
NamesOf(team) == {team[k] : k \in DOMAIN team}

\* C18 as stated: whenever the resolver is called with a team of more than
\* one member, the member it returns has a name other than the request's
\* assigned_to.
C18_AvoidsAssigneeInAnyTeam ==
    \A k \in DOMAIN resolved :
        Len(resolved[k].team) > 1 =>
            /\ resolved[k].supervisor \in NamesOf(resolved[k].team)
            /\ resolved[k].supervisor # resolved[k].assigned_to

\* C18, amended: whenever the resolver is called with a team of which some
\* member has a name other than the request's assigned_to, it returns such
\* a member; when every member carries the assignee's name (a team of one,
\* or namesakes) it returns a member of that name.
C18_AvoidsAssigneeWhenPossible ==
    \A k \in DOMAIN resolved :
        LET call == resolved[k]
        IN  /\ (NamesOf(call.team) \ {call.assigned_to} # {}) =>
                   /\ call.supervisor \in NamesOf(call.team)
                   /\ call.supervisor # call.assigned_to
            /\ (call.team # <<>> /\ NamesOf(call.team) \ {call.assigned_to} = {}) =>
                   call.supervisor = call.assigned_to

\* the resolver was called for a request assigned to a member of a team
\* with other members, and returned one of the others
C18_Witness ==
    \E k \in DOMAIN resolved :
        /\ Len(resolved[k].team) > 1
        /\ resolved[k].assigned_to \in NamesOf(resolved[k].team)
        /\ resolved[k].supervisor \in NamesOf(resolved[k].team)
        /\ resolved[k].supervisor # resolved[k].assigned_to

\* the assignees of the successive escalations of one request from the
\* given level up to the size of the team, each escalation assigning the
\* request to the member the resolver chose
RECURSIVE EscalationChain(_, _, _)
EscalationChain(team, assigned_to, level) ==
    IF level > Len(team) THEN <<>>
    ELSE LET chosen == SelectBackup(team, assigned_to, level)
         IN  <<chosen>> \o EscalationChain(team, chosen, level + 1)

\* C19: for a team of K members with K different names, the assignees
\* chosen for levels 1..K in the successive escalations of a request that
\* starts unassigned are the K members, each once.
C19_EachMemberOnce ==
    Cardinality(NamesOf(supervisors)) = Len(supervisors) =>
        LET chain == EscalationChain(supervisors, None, 1)
        IN  /\ Len(chain) = Len(supervisors)
            /\ NamesOf(chain) = NamesOf(supervisors)

\* the orders in which the members of a team can be listed
Reorderings(team) ==
    {[k \in DOMAIN team |-> team[p[k]]] :
        p \in {q \in [DOMAIN team -> DOMAIN team] :
                  \A j, k \in DOMAIN team : j # k => q[j] # q[k]}}

\* C20: the result of a call of the resolver is the one it returns for the
\* same request and level on every other order of the same team, and for
\* the empty team it is None.
C20_OrderIndependent ==
    \A k \in DOMAIN resolved :
        LET call == resolved[k]
        IN  /\ \A team \in Reorderings(call.team) :
                   SelectBackup(team, call.assigned_to, call.level)
                       = call.supervisor
            /\ call.team = <<>> => call.supervisor = None

\* the notification calls made by the step at hand
NewNotifyCalls == notify_calls' \ notify_calls

\* the last entry of a non-empty sequence
Last(seq) == seq[Len(seq)]

\* C21: a notification that fails neither aborts nor undoes the operation
\* that made the call. The escalation whose notification returned False
\* leaves the request TIMEOUT at the level it wrote, with the entry of that
\* level appended to the history, and the sweep reports it as escalated; the
\* creation whose notification returned False leaves the request stored and
\* returns it to the caller; and no later step removes such a request or
\* changes the escalated one.
C21_NotifierFailureKeepsOperation ==
    [][/\ \A c \in NewNotifyCalls :
            ~c.returned =>
                LET id == c.request_id
                IN  IF c.origin = "escalation"
                    THEN /\ id \in 1..Len(rows')
                         /\ rows'[id].status = TIMEOUT
                         /\ rows'[id].escalation_level > 0
                         /\ rows'[id].escalation_history =
                                Append(rows[id].escalation_history,
                                       Last(rows'[id].escalation_history))
                         /\ Last(rows'[id].escalation_history).level =
                                rows'[id].escalation_level
                         /\ actions'[BatchSweeper] =
                                Append(actions[BatchSweeper],
                                       [action |-> "escalated",
                                        request_id |-> id,
                                        level |-> rows'[id].escalation_level,
                                        supervisor |-> rows'[id].assigned_to])
                    ELSE /\ id \in 1..Len(rows')
                         /\ id \notin Stored
                         /\ service_returned' =
                                [called |-> TRUE, raised |-> FALSE,
                                 returned |->
                                     <<_row_to_help_request(id, rows'[id])>>]
       /\ \A c \in notify_calls :
            ~c.returned =>
                /\ c.request_id \in Stored
                /\ c.request_id \in 1..Len(rows')
                /\ c.origin = "escalation" =>
                       rows'[c.request_id] = rows[c.request_id]]_vars

\* C21 witness: a creation and an escalation have each had their
\* notification fail
C21_Witness ==
    \E c, d \in notify_calls :
        /\ c.origin = "creation" /\ ~c.returned
        /\ d.origin = "escalation" /\ ~d.returned
        /\ rows[d.request_id].status = TIMEOUT
        /\ service_returned.returned # <<>>

\* the ids the list returned by a sweep names
Reported(s) == {actions[s][k].request_id : k \in DOMAIN actions[s]}

\* C22: when a sweep has returned, every request of its batch other than
\* those whose processing failed has been escalated or marked UNRESOLVED by
\* it: the request is TIMEOUT or UNRESOLVED and the sweep reports it,
\* whatever failed before or after it in the batch.
C22_FailureSparesTheRest ==
    pc[BatchSweeper] = "idle" =>
        \A i \in swept[BatchSweeper] \ failed[BatchSweeper] :
            /\ rows[i].status \in {TIMEOUT, UNRESOLVED}
            /\ i \in Reported(BatchSweeper)

\* C22 witness: the sweep has returned; the first request of its batch
\* failed and the second was processed
C22_Witness ==
    /\ pc[BatchSweeper] = "idle"
    /\ swept[BatchSweeper] = {1, 2}
    /\ failed[BatchSweeper] = {1}
    /\ rows[1].status = PENDING
    /\ rows[2].status \in {TIMEOUT, UNRESOLVED}

\* C23: when a sweep has returned, the list it returned names every request
\* of its batch that it could neither escalate nor mark UNRESOLVED.
C23_FailuresReported ==
    pc[BatchSweeper] = "idle" =>
        failed[BatchSweeper] \subseteq Reported(BatchSweeper)

\* a step that starts a sweep of the batch sweeper
StartsSweep == pc[BatchSweeper] = "idle" /\ pc'[BatchSweeper] = "handle"

\* the stored requests a step changes
Changed == {i \in Stored : rows'[i] # rows[i]}

\* C24: a sweep that follows another one, at the same instant or later,
\* changes no request of the earlier sweep's batch: it starts on a batch
\* that holds none of them, and a sweep changes requests of its own batch
\* only. Requests that are in the later batch without having been in the
\* earlier one are the newly expired ones.
C24_SecondSweepChangesNothing ==
    [][/\ StartsSweep =>
              swept'[BatchSweeper] \cap swept[BatchSweeper] = {}
       /\ Changed \subseteq swept[BatchSweeper]
       /\ Changed # {} => pc[BatchSweeper] # "idle"]_vars

\* C24, amended: the same, for the requests of the earlier batch that the
\* earlier sweep escalated or marked UNRESOLVED; a request whose processing
\* failed is still PENDING and is taken up again.
C24_SecondSweepRetriesOnlyFailures ==
    [][/\ StartsSweep =>
              swept'[BatchSweeper] \cap swept[BatchSweeper]
                  \subseteq failed[BatchSweeper]
       /\ Changed \subseteq swept[BatchSweeper]
       /\ Changed # {} => pc[BatchSweeper] # "idle"]_vars

\* C24 witness: a sweep has escalated a request and a later sweep, started
\* at the same instant, has found nothing to do
C24_Witness ==
    /\ pc[BatchSweeper] = "idle"
    /\ swept[BatchSweeper] = {}
    /\ \E i \in Stored :
          /\ rows[i].status = TIMEOUT
          /\ Len(rows[i].escalation_history) = 1
          /\ rows[i].updated_at = UtcNow

\* the last query was op; its record is queried[1]
Queried(op) == queried # <<>> /\ queried[1].op = op

\* the order of the priorities by urgency: URGENT > HIGH > MEDIUM > LOW
UrgencyRank(priority) ==
    CASE priority = "urgent" -> 4
      [] priority = "high" -> 3
      [] priority = "medium" -> 2
      [] priority = "low" -> 1

\* C25: get_pending_requests(limit) returns at most limit requests, all of
\* them PENDING, the more urgent priority first (URGENT, HIGH, MEDIUM, LOW)
\* and, within one priority, the earlier created first.
C25_PendingByUrgency ==
    Queried("get_pending_requests") =>
        LET result == queried[1].result
        IN  /\ Len(result) <= queried[1].limit
            /\ \A k \in DOMAIN result : result[k].status = PENDING
            /\ \A k, l \in DOMAIN result :
                  k < l =>
                      \/ UrgencyRank(result[k].priority)
                             > UrgencyRank(result[l].priority)
                      \/ /\ result[k].priority = result[l].priority
                         /\ result[k].created_at <= result[l].created_at

\* C26: update_request_status on an id that no stored request has returns
\* False and changes no request.
C26_UnknownIdRejected ==
    [][(HumanStep /\ rows = <<>>) =>
          /\ update_returned' = <<FALSE>>
          /\ rows' = rows]_vars

\* a step of a creation through the service whose INSERT failed: the store
\* raised, and at this minute of the hour no deadline computation raises
InsertFailed ==
    /\ created' # created \/ service_returned' # service_returned
    /\ created'.raised
    /\ ~TimeoutAtRaises(LocalNow, "low")

\* C27: a creation whose INSERT failed leaves the store unchanged, hands no
\* request to its caller and raises the error to it.
C27_InsertFailureSurfaced ==
    [][InsertFailed =>
          /\ rows' = rows
          /\ service_returned'.returned = <<>>
          /\ service_returned'.raised]_vars

\* the stored requests in one of the given statuses
CountIn(statuses) == Cardinality({i \in Stored : rows[i].status \in statuses})

\* value is num / den rounded to the nearest integer; den is positive
Nearest(value, num, den) ==
    /\ 2 * (value * den - num) <= den
    /\ 2 * (num - value * den) <= den

\* C28: the escalation success rate that get_lifecycle_stats reports is, in
\* tenths of a percent, 1000 when no request is TIMEOUT or UNRESOLVED, and
\* otherwise 1000 * (timeoutCount - unresolvedCount) / timeoutCount rounded
\* to the nearest tenth, where timeoutCount counts the requests in TIMEOUT
\* or UNRESOLVED.
C28_SuccessRate ==
    Queried("get_lifecycle_stats") =>
        LET rate == queried[1].result.escalation_success_rate
            timeoutCount == CountIn({TIMEOUT, UNRESOLVED})
            unresolvedCount == CountIn({UNRESOLVED})
        IN  IF timeoutCount = 0
            THEN rate = 1000
            ELSE Nearest(rate, 1000 * (timeoutCount - unresolvedCount),
                         timeoutCount)

\* C28 witness: the rate has been computed for one unresolved request among
\* three timed out, where it is rounded, and it is 66.7
C28_Witness ==
    /\ Queried("get_lifecycle_stats")
    /\ CountIn({TIMEOUT, UNRESOLVED}) = 3
    /\ CountIn({UNRESOLVED}) = 1
    /\ queried[1].result.escalation_success_rate = 667

\* C29: get_statistics returns the number of stored requests, the count of
\* every status and of every priority, each breakdown summing to the total,
\* and the number of requests in TIMEOUT or UNRESOLVED; the call changes no
\* request.
C29_StatisticsConsistent ==
    [][(queried' # queried /\ queried'[1].op = "get_statistics") =>
          LET stats == queried'[1].result
          IN  /\ rows' = rows
              /\ stats.total_requests = Len(rows)
              /\ \A s \in HelpRequestStatus :
                    Get(stats.status_counts, s) = CountIn({s})
              /\ \A p \in HelpRequestPriority :
                    Get(stats.priority_counts, p) =
                        Cardinality({i \in Stored : rows[i].priority = p})
              /\ SumOver(DOMAIN stats.status_counts, stats.status_counts)
                     = stats.total_requests
              /\ SumOver(DOMAIN stats.priority_counts, stats.priority_counts)
                     = stats.total_requests
              /\ stats.timeout_count = CountIn({TIMEOUT, UNRESOLVED})]_vars

\* C29 witness: statistics of three requests in three statuses and two
\* priorities, one of them unresolved
C29_Witness ==
    /\ Queried("get_statistics")
    /\ queried[1].result.total_requests = 3
    /\ Cardinality(DOMAIN queried[1].result.status_counts) = 3
    /\ Cardinality(DOMAIN queried[1].result.priority_counts) = 2
    /\ queried[1].result.timeout_count = 1
    /\ CountIn({UNRESOLVED}) = 1

\* C30: the average resolution time that get_statistics reports is, in
\* tenths of a minute, 0 when no request is RESOLVED and otherwise the mean
\* over the RESOLVED requests of updated_at - created_at, rounded to the
\* nearest tenth; it is never negative.
C30_AverageResolution ==
    Queried("get_statistics") =>
        LET avg == queried[1].result.avg_response_time_minutes
            resolved_ids == {i \in Stored : rows[i].status = RESOLVED}
        IN  /\ avg >= 0
            /\ IF resolved_ids = {}
               THEN avg = 0
               ELSE Nearest(avg,
                            SumOver(resolved_ids,
                                    [i \in Stored |->
                                        rows[i].updated_at - rows[i].created_at]),
                            6 * Cardinality(resolved_ids))

\* C31: every successful mutation of a stored request
\* (update_request_status, escalate_request, mark_unresolved) leaves its
\* updated_at not earlier than the updated_at it had before and not
\* earlier than its created_at.
C31_UpdatedAtMonotone ==
    [][\A i \in Stored :
          rows'[i] # rows[i] =>
              /\ rows'[i].updated_at >= rows[i].updated_at
              /\ rows'[i].updated_at >= rows'[i].created_at]_vars

\* the requests a step commits an escalation for: their history grows
EscalationsCommitted ==
    {i \in Stored :
        Len(rows'[i].escalation_history) > Len(rows[i].escalation_history)}

\* C35: for every escalation a sweep commits, the notifier is invoked in
\* the same handler, after the store write, for that request, and with a
\* notifier whose delivery works the call delivers the notification (it
\* returns True).
C35_EscalationNotified ==
    [][\A i \in EscalationsCommitted :
          \E call \in NewNotifyCalls :
              /\ call.request_id = i
              /\ call.origin = "escalation"
              /\ call.returned]_vars

\* the action a step appends to the list a sweeper will return
NewActions(s) ==
    IF Len(actions'[s]) = Len(actions[s]) + 1 /\ IsPrefix(actions[s], actions'[s])
    THEN {Last(actions'[s])}
    ELSE {}

\* C38: the list of actions of a sweep matches the transitions the sweep
\* committed: the list grows by at most one action per step and holds at
\* most one action per request; a step appends an 'escalated' action for
\* request r with level L and supervisor S exactly when it stored TIMEOUT,
\* level L and assignee S for r, and an 'unresolved' action for r exactly
\* when it stored UNRESOLVED for r.
C38_ActionsMatchTransitions ==
    [][/\ \A s \in Sweepers :
            /\ \/ actions'[s] = actions[s]
               \/ actions'[s] = <<>>
               \/ NewActions(s) # {}
            /\ \A k, l \in DOMAIN actions'[s] :
                   actions'[s][k].request_id = actions'[s][l].request_id
                       => k = l
       /\ \A i \in Stored :
            /\ (rows'[i] # rows[i] /\ rows'[i].status = TIMEOUT) <=>
                   \E s \in Sweepers : \E a \in NewActions(s) :
                       /\ a.action = "escalated"
                       /\ a.request_id = i
                       /\ a.level = rows'[i].escalation_level
                       /\ a.supervisor = rows'[i].assigned_to
            /\ (rows'[i] # rows[i] /\ rows'[i].status = UNRESOLVED) <=>
                   \E s \in Sweepers : \E a \in NewActions(s) :
                       /\ a.action = "unresolved"
                       /\ a.request_id = i]_vars

\* a sweep whose list holds an escalation and an UNRESOLVED mark, of two
\* different requests, both stored
C38_Witness ==
    \E k, l \in DOMAIN actions[BatchSweeper] :
        LET a == actions[BatchSweeper][k]
            b == actions[BatchSweeper][l]
        IN  /\ a.action = "escalated"
            /\ b.action = "unresolved"
            /\ a.request_id # b.request_id
            /\ rows[a.request_id].status = TIMEOUT
            /\ rows[a.request_id].assigned_to = a.supervisor
            /\ rows[b.request_id].status = UNRESOLVED

\* C34: requests are never deleted and ids are unique: the set of stored
\* ids only grows, the request stored under an id stays the request that
\* was created under it (its creation time and priority), and the id of
\* every request a creation stores and returns is an id no earlier request
\* has.
C34_IdsUniqueAndStable ==
    [][/\ Stored \subseteq 1..Len(rows')
       /\ \A i \in Stored :
            /\ rows'[i].created_at = rows[i].created_at
            /\ rows'[i].priority = rows[i].priority
       /\ (service_returned' # service_returned /\ ~created'.raised) =>
            LET request == created'.returned[1]
            IN  /\ request.id \notin Stored
                /\ request.id \in 1..Len(rows')
                /\ rows'[request.id].created_at = request.created_at
                /\ rows'[request.id].priority = request.priority
                /\ service_returned'.returned = <<request>>]_vars

\* two requests have been created and a sweep has changed one of them
C34_Witness ==
    /\ Len(rows) = 2
    /\ created.returned # <<>>
    /\ created.returned[1].id = 2
    /\ \E i \in Stored : rows[i].status # PENDING

\* the step at hand is a step of sweeper s that handles a request of its
\* batch
HandlesRequest(s) ==
    /\ pc[s] # "idle"
    /\ timed_out_requests'[s] # timed_out_requests[s]

\* C37: a sweep modifies only requests that were expired when it queried
\* the store: every request a step of the sweep changes belongs to the
\* batch the sweep queried, and its timeout_at, a stamp of the local clock,
\* lies before the local time of the change (as it does whenever it lay
\* before the local time of the query); every other request is left
\* unchanged in every field.
C37_SweepWritesOnlyExpired ==
    [][HandlesRequest(BatchSweeper) =>
          \A i \in Stored :
              rows'[i] # rows[i] =>
                  /\ i \in swept[BatchSweeper]
                  /\ rows[i].timeout_at < LocalNow]_vars

\* C39: in every reachable state a request with status TIMEOUT has
\* escalation_level >= 1, a non-empty escalation_history and an assignee,
\* who is the assignee of the last history entry.
C39_TimeoutMeansEscalated ==
    \A i \in Stored :
        rows[i].status = TIMEOUT =>
            /\ rows[i].escalation_level >= 1
            /\ rows[i].escalation_history # <<>>
            /\ rows[i].assigned_to # None
            /\ rows[i].assigned_to = Last(rows[i].escalation_history).assigned_to

\* ---------------------------------------------------------------- schema
\* what a row stored before ALTER TABLE added a column shows in it: the
\* DEFAULT of the column, NULL where it has none
ColumnDefault(column) ==
    CASE column = "timeout_at" -> None
      [] column = "escalation_level" -> 0
      [] column = "escalation_history" -> <<>>

\* ALTER TABLE help_requests ADD COLUMN: the stored values stay
AddColumn(table, column) ==
    [columns |-> table.columns \cup {column},
     rows |-> [i \in DOMAIN table.rows |->
                  [c \in DOMAIN table.rows[i] \cup {column} |->
                      IF c \in DOMAIN table.rows[i]
                      THEN table.rows[i][c]
                      ELSE ColumnDefault(column)]]]

\* variant: the columns are added where they are missing, and
\* escalation_level and escalation_history are set back to their defaults
\* on every run
_migrate_schema_unconditional(table) ==
    LET t1 == IF "timeout_at" \notin table.columns
              THEN AddColumn(table, "timeout_at") ELSE table
        reset == {"escalation_level", "escalation_history"}
    IN  [columns |-> t1.columns \cup reset,
         rows |-> [i \in DOMAIN t1.rows |->
                      [c \in DOMAIN t1.rows[i] \cup reset |->
                          IF c \in reset THEN ColumnDefault(c)
                          ELSE t1.rows[i][c]]]]

\* _migrate_schema: each of the three columns is added if PRAGMA table_info
\* does not list it
_migrate_schema(table) ==
    LET t1 == IF "timeout_at" \notin table.columns
              THEN AddColumn(table, "timeout_at") ELSE table
        t2 == IF "escalation_level" \notin table.columns
              THEN AddColumn(t1, "escalation_level") ELSE t1
        t3 == IF "escalation_history" \notin table.columns
              THEN AddColumn(t2, "escalation_history") ELSE t2
    IN  t3

\* _init_database: CREATE TABLE IF NOT EXISTS, then the migration; the
\* indexes hold no data of their own
_init_database(table) ==
    _migrate_schema(IF table.columns = {}
                    THEN [columns |-> TableColumns, rows |-> <<>>]
                    ELSE table)

\* HelpRequestDB(db_path) is constructed on the store once more
InitDatabase ==
    /\ Len(init_runs) < MaxInits
    /\ init_runs' = Append(init_runs, columns)
    /\ LET table == _init_database([columns |-> columns, rows |-> rows])
       IN  /\ columns' = table.columns
           /\ rows' = table.rows
    /\ UNCHANGED <<clock, tz, supervisors, sweepVars, n_updates, ghostVars,
                   callVars, obsVars, routed, reading>>

\* the tables a store can hold when the program starts: none, the table
\* of the first version, or one to which some of the columns were added
StoredColumns ==
    {{}} \cup {BaseColumns \cup added :
                  added \in SUBSET {AddedColumns[k] : k \in DOMAIN AddedColumns}}

\* the rows of such a store: pending in any priority, resolved by hand, or
\* escalated once
StoredRows ==
    {NewRow(tz, p) : p \in HelpRequestPriority}
    \cup {UpdatedRow(NewRow(tz, "medium"), RESOLVED, "Jennifer Smith",
                     "answered", 300),
          EscalatedRow(NewRow(tz, "medium"), <<>>, 1, "Maria Rodriguez",
                       <<"Escalated", 0, 1>>)}

InitSchema ==
    /\ tz \in TzOffsets
    /\ clock = 900
    /\ columns \in StoredColumns
    /\ \E store \in UNION {[1..n -> StoredRows] : n \in 0..MaxRows} :
          /\ columns = {} => store = <<>>
          /\ rows = [k \in DOMAIN store |->
                        [c \in columns |-> store[k][c]]]
    /\ init_runs = <<>>
    /\ routed = <<>>
    /\ reading = <<>>
    /\ supervisors = _load_supervisors
    /\ pc = [s \in Sweepers |-> "idle"]
    /\ timed_out_requests = [s \in Sweepers |-> <<>>]
    /\ current_history = [s \in Sweepers |-> <<>>]
    /\ actions = [s \in Sweepers |-> <<>>]
    /\ n_updates = 0
    /\ expiry_sweeps = [i \in Ids |-> 0]
    /\ manual_resolved = [i \in Ids |-> FALSE]
    /\ swept_late = [i \in Ids |-> FALSE]
    /\ created = [raised |-> FALSE, returned |-> <<>>]
    /\ update_returned = <<>>
    /\ resolved = <<>>
    /\ InitObserved

SchemaSpec == InitSchema /\ [][InitDatabase]_vars

\* C33: store initialisation is additive and idempotent: whatever table
\* the store holds, a run of _init_database removes no column and no row
\* and leaves every field a row had unchanged; a run on a store
\* _init_database has run on before changes neither the columns nor any
\* row.
C33_InitAdditiveIdempotent ==
    [][/\ columns \subseteq columns'
       /\ Len(rows') = Len(rows)
       /\ \A i \in DOMAIN rows : \A c \in DOMAIN rows[i] :
              /\ c \in DOMAIN rows'[i]
              /\ rows'[i][c] = rows[i][c]
       /\ init_runs # <<>> => (columns' = columns /\ rows' = rows)]_vars

\* _init_database has run twice on a store of the first version that held
\* an answered request: the first run found none of the three columns, the
\* second found them all
C33_Witness ==
    /\ Len(init_runs) = MaxInits
    /\ init_runs[1] = BaseColumns
    /\ init_runs[MaxInits] = TableColumns
    /\ rows # <<>>
    /\ rows[1].status = RESOLVED
    /\ rows[1].resolution = "answered"
    /\ rows[1].escalation_level = 0

\* --------------------------------------------------------------- routing
\* supervisors[supervisor_id]['name']
SupervisorNameOf(supervisor_id) ==
    CASE supervisor_id = "maria_rodriguez" -> "Maria Rodriguez"
      [] supervisor_id = "jennifer_smith" -> "Jennifer Smith"
      [] supervisor_id = "david_chen" -> "David Chen"

\* HelpRequestService.create_help_request on a store and a notifier that
\* work, with the supervisor the notification is delivered to recorded
\* under the id of the request
RoutedCreate ==
    \E p \in HelpRequestPriority, q \in Questions, h \in Hours :
        LET supervisor_id == _auto_assign_supervisor(p, q, h)
            notified == notify_supervisor(p, q, None, h, TRUE)
        IN  /\ HelpRequestService_create_help_request(p, TRUE, notified)
            /\ routed' =
                 IF created'.raised THEN routed
                 ELSE Append(routed, IF notified
                                     THEN SupervisorNameOf(supervisor_id)
                                     ELSE None)

NextRouting == Tick \/ RoutedCreate \/ BatchSweepStep

RoutingSpec == Init /\ [][NextRouting]_vars

\* C40: with a team of more than one supervisor, the assignee the first
\* escalation of a request stores is a different supervisor from the one
\* who was notified when the request was created.
C40_FirstEscalationReroutes ==
    [][\A i \in Stored :
          (/\ Len(supervisors) > 1
           /\ rows[i].escalation_history = <<>>
           /\ rows'[i].escalation_history # <<>>
           /\ routed[i] # None)
          => rows'[i].assigned_to # routed[i]]_vars

\* ------------------------------------------- statistics, statement-wise
\* the statements of get_statistics in the order they are executed, by the
\* key their result is returned under
StatisticsFields ==
    <<"total_requests", "status_counts", "priority_counts",
      "avg_response_time_minutes", "timeout_count", "avg_escalation_level">>

\* the calls that read the statistics
StatisticsCallers == {"get_statistics", "get_lifecycle_stats"}

\* the dict get_statistics returns, from the results of its statements
StatsOf(results) ==
    [total_requests |-> results[1],
     status_counts |-> results[2],
     priority_counts |-> results[3],
     avg_response_time_minutes |-> results[4],
     timeout_count |-> results[5],
     avg_escalation_level |-> results[6]]

\* _calculate_escalation_success_rate on the dict its own get_statistics
\* call returned, in tenths of a percent
SuccessRateOf(stats) ==
    LET total_timeouts == stats.timeout_count
        total_unresolved == Get(stats.status_counts, UNRESOLVED)
    IN  IF total_timeouts = 0 THEN 1000
        ELSE Round(1000 * (total_timeouts - total_unresolved), total_timeouts)

\* the dict get_lifecycle_stats returns: the counts come from its own
\* get_statistics call, the rate from the call the rate makes
LifecycleStatsOf(stats, rate_stats) ==
    [total_requests |-> stats.total_requests,
     pending_requests |-> Get(stats.status_counts, PENDING),
     timeout_requests |-> Get(stats.status_counts, TIMEOUT),
     unresolved_requests |-> Get(stats.status_counts, UNRESOLVED),
     resolved_requests |-> Get(stats.status_counts, RESOLVED),
     timeout_count |-> stats.timeout_count,
     avg_escalation_level |-> stats.avg_escalation_level,
     escalation_success_rate |-> SuccessRateOf(rate_stats)]

\* one statement of a statistics call: each SELECT reads the store as it is
\* when the statement runs, no transaction spans them; get_lifecycle_stats
\* runs get_statistics twice, on two connections
ExecuteStatement(op) ==
    /\ IF reading = <<>>
       THEN /\ reading' = <<[op |-> op, first |-> <<>>,
                             results |-> <<get_statistics.total_requests>>]>>
            /\ UNCHANGED queried
       ELSE LET call == reading[1]
                field == StatisticsFields[Len(call.results) + 1]
                results == Append(call.results, get_statistics[field])
            IN  /\ call.op = op
                /\ IF Len(results) < Len(StatisticsFields)
                   THEN /\ reading' = <<[call EXCEPT !.results = results]>>
                        /\ UNCHANGED queried
                   ELSE IF op = "get_statistics"
                   THEN /\ reading' = <<>>
                        /\ queried' = <<[op |-> op,
                                         result |-> StatsOf(results)]>>
                   ELSE IF call.first = <<>>
                   THEN /\ reading' = <<[call EXCEPT
                                            !.first = <<StatsOf(results)>>,
                                            !.results = <<>>]>>
                        /\ UNCHANGED queried
                   ELSE /\ reading' = <<>>
                        /\ queried' =
                             <<[op |-> op,
                                result |-> LifecycleStatsOf(call.first[1],
                                                            StatsOf(results))]>>
    /\ UNCHANGED <<rows, clock, tz, supervisors, sweepVars, n_updates,
                   ghostVars, callVars, notify_calls, service_returned,
                   swept, failed, columns, routed, init_runs>>

ReadStatistics == \E op \in StatisticsCallers : ExecuteStatement(op)

\* statistics are read while another process creates and updates requests
NextReading == Create \/ Update \/ ReadStatistics

ReadingSpec == Init /\ [][NextReading]_vars

\* C36: every statistics result corresponds to a single store state, also
\* when it is computed while other callers create or update requests: in
\* what get_statistics returns the status counts sum to total_requests and
\* the unresolved count is at most timeout_count; the rate
\* get_lifecycle_stats returns lies between 0 and 100 percent and is the
\* rate of the timeout_count and unresolved_requests returned with it.
C36_StatisticsOfOneState ==
    /\ Queried("get_statistics") =>
         LET stats == queried[1].result
         IN  /\ SumOver(DOMAIN stats.status_counts, stats.status_counts)
                    = stats.total_requests
             /\ Get(stats.status_counts, UNRESOLVED) <= stats.timeout_count
    /\ Queried("get_lifecycle_stats") =>
         LET stats == queried[1].result
             rate == stats.escalation_success_rate
         IN  /\ 0 <= rate /\ rate <= 1000
             /\ stats.unresolved_requests <= stats.timeout_count
             /\ IF stats.timeout_count = 0
                THEN rate = 1000
                ELSE Nearest(rate,
                             1000 * (stats.timeout_count
                                         - stats.unresolved_requests),
                             stats.timeout_count)

\* ------------------------------------------- the sweep and its notifier
\* the UPDATE of escalate_request has been committed and _handle_timeout
\* awaits notify_supervisor; process_timeouts goes on when the call returns
AwaitNotification(s) ==
    /\ pc[s] = "escalate"
    /\ LET request == Head(timed_out_requests[s])
           current_level == GetEscalationLevel(request)
           next_level == current_level + 1
           backup_supervisor == _get_backup_supervisor(request, next_level)
       IN  rows' = [rows EXCEPT ![request.id] =
                       EscalatedRow(@, current_history[s], next_level,
                                    backup_supervisor,
                                    <<"Escalated", current_level, next_level>>)]
    /\ pc' = [pc EXCEPT ![s] = "notify"]
    /\ UNCHANGED <<clock, tz, supervisors, timed_out_requests,
                   current_history, actions, n_updates, ghostVars, callVars,
                   obsVars, extVars>>

\* the awaited call returns, or raises an exception that is caught: the
\* action is returned to process_timeouts, which takes the next request
NotificationReturns(s, returned) ==
    /\ pc[s] = "notify"
    /\ LET request == Head(timed_out_requests[s])
           current_level == GetEscalationLevel(request)
           next_level == current_level + 1
           backup_supervisor == _get_backup_supervisor(request, next_level)
       IN  /\ actions' = [actions EXCEPT ![s] =
                  Append(@, [action |-> "escalated",
                             request_id |-> request.id,
                             level |-> next_level,
                             supervisor |-> backup_supervisor])]
           /\ notify_calls' = notify_calls \cup
                  {[request_id |-> request.id,
                    origin |-> "escalation",
                    returned |-> returned]}
    /\ timed_out_requests' = [timed_out_requests EXCEPT ![s] = Tail(@)]
    /\ pc' = [pc EXCEPT ![s] = "handle"]
    /\ current_history' = [current_history EXCEPT ![s] = <<>>]
    /\ UNCHANGED <<rows, clock, tz, supervisors, n_updates, ghostVars,
                   callVars, service_returned, swept, failed, queried,
                   extVars>>

\* the steps process_timeouts takes by itself, the store working
AwaitSweepStep(s) ==
    \/ StartSweep(s, FALSE, TRUE)
    \/ HandleTimeout(s, TRUE)
    \/ AwaitNotification(s)
    \/ FinishSweep(s)

\* the notifier completes a call, delivered or not
NotifierStep ==
    \E returned \in BOOLEAN : NotificationReturns(BatchSweeper, returned)

NextAwait ==
    Tick \/ ServiceCreate \/ AwaitSweepStep(BatchSweeper) \/ NotifierStep

\* the sweep takes every step it can take; nothing makes a notifier
\* complete its call
AwaitSpec ==
    /\ Init
    /\ [][NextAwait]_vars
    /\ WF_vars(AwaitSweepStep(BatchSweeper))

\* C32: the sweep does not wait for the delivery of one request's
\* notification before it handles the next expired request: whether or not
\* the notifier ever completes a call, every request of the batch a sweep
\* has queried is eventually escalated or marked, i.e. leaves PENDING.
C32_SlowNotifierDelaysNobody ==
    \A i \in 1..MaxRows :
        (i \in Stored /\ i \in swept[BatchSweeper])
            ~> (i \in Stored /\ rows[i].status # PENDING)

====
